---- MODULE Spec2Model ----
(***************************************************************************)
(* mockcache.Client: the dictionary-based mock memcached client of         *)
(* src/mockcache.py, as a state machine.  One Client instance is driven by *)
(* a single-threaded caller; the wall clock advances between (and, in      *)
(* get_multi, during) the calls.                                           *)
(*                                                                         *)
(* Python values are tagged records: str values are sequences of           *)
(* one-character strings, int values are integers, None is its own tag.    *)
(* A naive local datetime is the number of seconds it lies after the naive *)
(* local datetime of the Unix epoch, so datetime.fromtimestamp and         *)
(* datetime.now are conversions from Unix time, not the identity.          *)
(***************************************************************************)
EXTENDS Integers, Sequences, FiniteSets, TLC

\* ------------------------------------------------------------------ bounds

\* Longest str value a concatenation may build.
MaxLen == 2
\* Largest magnitude an incr/decr may reach.
MaxInt == 1
\* Seconds the wall clock may advance during one session.
MaxTicks == 2

\* ------------------------------------------------------------ environment

\* `60 * 60 * 24 * 30`: below it a time is relative, from it on absolute.
ThirtyDays == 60 * 60 * 24 * 30

\* Unix time at which the session starts: one second before the Unix time
\* ThirtyDays, so that the smallest absolute expirations fall in the session.
StartClock == ThirtyDays - 1

\* The local zone's offset from UTC in seconds (time.localtime of the host).
UtcOffset == 9 * 3600

Keys == {"a", "b"}

\* ---------------------------------------------------------- Python values

PyNone == [tag |-> "None", n |-> 0, s |-> <<>>]
PyInt(i) == [tag |-> "int", n |-> i, s |-> <<>>]
PyStr(q) == [tag |-> "str", n |-> 0, s |-> q]
\* A (value, expiration) pair used as a value.
PyTuple(val, exp) == [tag |-> "tuple", n |-> 0, s |-> <<val, exp>>]

DigitChars == <<"0", "1", "2", "3", "4", "5", "6", "7", "8", "9">>
DigitVal(c) == (CHOOSE i \in 1..10 : DigitChars[i] = c) - 1
IsDigit(c) == \E i \in 1..10 : DigitChars[i] = c
IsDigits(q) == Len(q) >= 1 /\ \A i \in 1..Len(q) : IsDigit(q[i])

RECURSIVE DigitsVal(_)
DigitsVal(q) ==
    IF q = <<>> THEN 0
    ELSE DigitsVal(SubSeq(q, 1, Len(q) - 1)) * 10 + DigitVal(q[Len(q)])

RECURSIVE Decimal(_)
Decimal(i) ==
    IF i < 10 THEN <<DigitChars[i + 1]>>
    ELSE Decimal(i \div 10) \o <<DigitChars[(i % 10) + 1]>>

\* str(v): a str is itself, an int is its decimal numeral with a "-" sign.
Str(v) ==
    IF v.tag = "str" THEN v.s
    ELSE IF v.n < 0 THEN <<"-">> \o Decimal(0 - v.n)
    ELSE Decimal(v.n)

\* int(v) succeeds on an int and on a str that is an optional sign followed
\* by decimal digits (the alphabet of the model holds no whitespace and no
\* underscore); on any other str it raises ValueError.
IntCoercible(v) ==
    \/ v.tag = "int"
    \/ /\ v.tag = "str"
       /\ \/ IsDigits(v.s)
          \/ Len(v.s) >= 2 /\ v.s[1] \in {"-", "+"} /\ IsDigits(Tail(v.s))

IntOf(v) ==
    IF v.tag = "int" THEN v.n
    ELSE IF v.s[1] = "-" THEN 0 - DigitsVal(Tail(v.s))
    ELSE IF v.s[1] = "+" THEN DigitsVal(Tail(v.s))
    ELSE DigitsVal(v.s)

\* ------------------------------------------------------- datetime values

\* An expiration: None, or a naive local datetime.
NoExp == [isNone |-> TRUE, t |-> 0]
DateTime(t) == [isNone |-> FALSE, t |-> t]

\* datetime.datetime.now() when the Unix time is `clock`.
Now(clock) == DateTime(clock + UtcOffset)
\* datetime.datetime.fromtimestamp(ts).
FromTimestamp(ts) == DateTime(ts + UtcOffset)
\* dt + datetime.timedelta(0, seconds).
PlusSeconds(dt, seconds) == DateTime(dt.t + seconds)
\* Truth value of an expiration: None is false, every datetime is true.
Truthy(exp) == ~exp.isNone

\* ------------------------------------------------------- results of calls

EmptyMap == [k \in {} |-> PyNone]
Return(d, v) == [d |-> d, kind |-> "return", v |-> v, m |-> EmptyMap, exc |-> ""]
ReturnMap(d, m) ==
    [d |-> d, kind |-> "return", v |-> [tag |-> "dict", n |-> 0, s |-> <<>>],
     m |-> m, exc |-> ""]
Raise(d, exc) == [d |-> d, kind |-> "raise", v |-> PyNone, m |-> EmptyMap, exc |-> exc]

Entry(val, exp) == [val |-> val, exp |-> exp]
Put(d, key, e) == [k \in DOMAIN d \cup {key} |-> IF k = key THEN e ELSE d[k]]
Del(d, key) == [k \in DOMAIN d \ {key} |-> d[k]]

\* ------------------------------------------------------------------ Client

\* Names bound at module level of mockcache.py.  Client.delete reads the
\* name `dictionary`, which none of its statements binds locally.
ModuleGlobals ==
    {"datetime", "__author__", "__maintainer__", "__email__", "__copyright__",
     "__license__", "__version__", "Client"}

\* Client.__init__: self.dictionary = {}
ClientInit == [k \in {} |-> Entry(PyNone, NoExp)]

\* Client.set with `time <= 60 * 60 * 24 * 30` for its `<`.
SetExpiration_BorderRelative(clock, time) ==
    IF time = 0 THEN NoExp
    ELSE IF time <= ThirtyDays THEN PlusSeconds(Now(clock), time)
    ELSE FromTimestamp(time)

\* The expiration Client.set computes from its `time` argument.
SetExpiration(clock, time) ==
    IF time = 0 THEN NoExp
    ELSE IF time < ThirtyDays THEN PlusSeconds(Now(clock), time)
    ELSE FromTimestamp(time)

\* Client.set(key, val, time)
SetOp(d, clock, key, val, time) ==
    Return(Put(d, key, Entry(val, SetExpiration(clock, time))), PyInt(1))

\* Client.add that takes an expired entry for an absent one.
AddOp_ExpiredIsAbsent(d, clock, key, val, time) ==
    IF key \in DOMAIN d
       /\ ~(Truthy(d[key].exp) /\ d[key].exp.t < Now(clock).t)
    THEN Return(d, PyInt(0))
    ELSE SetOp(d, clock, key, val, time)

\* Client.add(key, val, time)
AddOp(d, clock, key, val, time) ==
    IF key \in DOMAIN d THEN Return(d, PyInt(0))
    ELSE SetOp(d, clock, key, val, time)

\* Client.replace without its presence check.
ReplaceOp_Upsert(d, clock, key, val, time) == SetOp(d, clock, key, val, time)

\* Client.replace(key, val, time)
ReplaceOp(d, clock, key, val, time) ==
    IF key \notin DOMAIN d THEN Return(d, PyInt(0))
    ELSE SetOp(d, clock, key, val, time)

\* Client.get with `exptime <= now` for its `exptime < now`.
GetOp_ExpiresAtNow(d, clock, key) ==
    IF key \notin DOMAIN d THEN Return(d, PyNone)
    ELSE IF Truthy(d[key].exp) /\ d[key].exp.t <= Now(clock).t
         THEN Return(Del(d, key), PyNone)
    ELSE Return(d, d[key].val)

\* Client.get without the `exptime and` of its test: Python 2 orders None
\* before every datetime, so an entry that never expires is evicted.
GetOp_NoneIsPast(d, clock, key) ==
    IF key \notin DOMAIN d THEN Return(d, PyNone)
    ELSE IF ~Truthy(d[key].exp) \/ d[key].exp.t < Now(clock).t
         THEN Return(Del(d, key), PyNone)
    ELSE Return(d, d[key].val)

\* Client.get that returns None for an expired entry without deleting it.
GetOp_KeepsExpired(d, clock, key) ==
    IF key \notin DOMAIN d THEN Return(d, PyNone)
    ELSE IF Truthy(d[key].exp) /\ d[key].exp.t < Now(clock).t
         THEN Return(d, PyNone)
    ELSE Return(d, d[key].val)

\* Client.get(key)
GetOp(d, clock, key) ==
    IF key \notin DOMAIN d THEN Return(d, PyNone)
    ELSE IF Truthy(d[key].exp) /\ d[key].exp.t < Now(clock).t
         THEN Return(Del(d, key), PyNone)
    ELSE Return(d, d[key].val)

\* Client.get_multi that deletes the expired entries it meets, as get does.
GetMultiOp_Evicts(d, nows, keys) ==
    LET live(i) ==
            /\ keys[i] \in DOMAIN d
            /\ \/ ~Truthy(d[keys[i]].exp)
               \/ d[keys[i]].exp.t > Now(nows[i]).t
        found == {keys[i] : i \in {j \in 1..Len(keys) : live(j)}}
        dead == {keys[i] : i \in {j \in 1..Len(keys) :
                                     keys[j] \in DOMAIN d /\ ~live(j)}}
    IN  ReturnMap([k \in DOMAIN d \ dead |-> d[k]], [k \in found |-> d[k].val])

\* Client.get_multi(keys).  `now` is the function datetime.now, called once
\* for every requested key that is present with a true expiration, so the
\* calls read the clock at different instants: nows[i] is the Unix time at
\* which the generator reaches keys[i].  dict() keeps the last pair of a
\* repeated key; every pair of a key carries the same stored value.
GetMultiOp(d, nows, keys) ==
    LET live(i) ==
            /\ keys[i] \in DOMAIN d
            /\ \/ ~Truthy(d[keys[i]].exp)
               \/ d[keys[i]].exp.t > Now(nows[i]).t
        found == {keys[i] : i \in {j \in 1..Len(keys) : live(j)}}
    IN  ReturnMap(d, [k \in found |-> d[k].val])

\* Client.incr that starts a missing key at delta, as a counter would.
IncrOp_CreatesOnMiss(d, key, delta) ==
    IF key \notin DOMAIN d
    THEN Return(Put(d, key, Entry(PyInt(delta), NoExp)), PyInt(delta))
    ELSE IF ~IntCoercible(d[key].val) THEN Raise(d, "ValueError")
    ELSE LET value == IntOf(d[key].val) + delta
         IN  Return(Put(d, key, Entry(PyInt(value), d[key].exp)), PyInt(value))

\* Client.incr that stores the new integer through set(key, value): the
\* expiration is lost.
IncrOp_DropsExpiration(d, key, delta) ==
    IF key \notin DOMAIN d THEN Return(d, PyNone)
    ELSE IF ~IntCoercible(d[key].val) THEN Raise(d, "ValueError")
    ELSE LET value == IntOf(d[key].val) + delta
         IN  Return(Put(d, key, Entry(PyInt(value), NoExp)), PyInt(value))

\* Client.incr(key, delta)
IncrOp(d, key, delta) ==
    IF key \notin DOMAIN d THEN Return(d, PyNone)
    ELSE IF ~IntCoercible(d[key].val) THEN Raise(d, "ValueError")
    ELSE LET value == IntOf(d[key].val) + delta
         IN  Return(Put(d, key, Entry(PyInt(value), d[key].exp)), PyInt(value))

\* Client.decr that passes delta on without negating it.
DecrOp_SameSign(d, key, delta) == IncrOp(d, key, delta)

\* Client.decr(key, delta)
DecrOp(d, key, delta) == IncrOp(d, key, 0 - delta)

\* Client.append with the operands of its `+` exchanged.
AppendOp_Prepends(d, key, val) ==
    IF key \notin DOMAIN d THEN Return(d, PyInt(0))
    ELSE Return(Put(d, key, Entry(PyStr(val \o Str(d[key].val)), d[key].exp)),
                PyInt(1))

\* Client.append that stores the new value through set(key, value): the
\* expiration is lost.
AppendOp_ClearsExpiration(d, key, val) ==
    IF key \notin DOMAIN d THEN Return(d, PyInt(0))
    ELSE Return(Put(d, key, Entry(PyStr(Str(d[key].val) \o val), NoExp)),
                PyInt(1))

\* Client.append(key, val)
AppendOp(d, key, val) ==
    IF key \notin DOMAIN d THEN Return(d, PyInt(0))
    ELSE Return(Put(d, key, Entry(PyStr(Str(d[key].val) \o val), d[key].exp)),
                PyInt(1))

\* Client.prepend with the operands of its `+` exchanged.
PrependOp_Appends(d, key, val) ==
    IF key \notin DOMAIN d THEN Return(d, PyInt(0))
    ELSE Return(Put(d, key, Entry(PyStr(Str(d[key].val) \o val), d[key].exp)),
                PyInt(1))

\* Client.prepend that starts a missing key at val.
PrependOp_CreatesOnMiss(d, key, val) ==
    IF key \notin DOMAIN d
    THEN Return(Put(d, key, Entry(PyStr(val), NoExp)), PyInt(1))
    ELSE Return(Put(d, key, Entry(PyStr(val \o Str(d[key].val)), d[key].exp)),
                PyInt(1))

\* Client.prepend(key, val)
PrependOp(d, key, val) ==
    IF key \notin DOMAIN d THEN Return(d, PyInt(0))
    ELSE Return(Put(d, key, Entry(PyStr(val \o Str(d[key].val)), d[key].exp)),
                PyInt(1))

\* Client.delete(key, time).  Its first statement evaluates `key in
\* dictionary`; the name is neither a local nor a module global, so the
\* lookup raises NameError before anything is read or written.  The rest of
\* the body passes self.dictionary[key], the whole (value, expiration) pair,
\* to set as the value.
DeleteOp(d, clock, key, time) ==
    IF "dictionary" \notin ModuleGlobals THEN Raise(d, "NameError")
    ELSE IF key \in DOMAIN d
         THEN IF time < 1 THEN Return(Del(d, key), PyInt(1))
              ELSE Return(SetOp(d, clock, key,
                                PyTuple(d[key].val, d[key].exp), time).d,
                          PyInt(0))
    ELSE Return(d, PyInt(0))

\* ------------------------------------------------------------ the session

\* Arguments the caller passes.
SetVals == {PyStr(<<"1">>), PyStr(<<"x">>)}
ConcatVals == {<<"0">>}
Times == {0, 1, ThirtyDays}
\* Both sides of the border between relative and absolute times.
BorderTimes == {0, 1, ThirtyDays - 1, ThirtyDays, ThirtyDays + 1}
DeleteTimes == {0, 1}
Deltas == {1, -1}
KeyLists(keys) == UNION {[1..n -> keys] : n \in 1..2}

VARIABLES
    caller,      \* what the caller passes: the keys and the times it uses,
                 \* and how many calls of the documented session it has made
    dictionary,  \* self.dictionary: key -> (value, expiration)
    other,       \* self.dictionary of a second Client instance
    clock,       \* the wall clock, as Unix time
    op,          \* the call the caller is looking at: its name and arguments
    ret,         \* how that call ended: its return value or exception
    pre,         \* self.dictionary when that call started
    pinned,      \* key -> the value of a set(key, value, 0) that no later
                 \* set/replace/append/prepend/incr/decr/delete call on the
                 \* key has followed, or None
    seen,        \* key -> the read ("get", "get_multi") that last found the
                 \* key's entry expired since the key was last written, or ""
    stale        \* the keys whose entry append, prepend, incr or decr changed
                 \* when it was expired, and set/add/replace have not
                 \* rewritten since

vars == <<caller, dictionary, other, clock, op, ret, pre, pinned, seen, stale>>

\* `after` is the call this one followed at once, if any; `self` is the
\* instance called (1: dictionary, 2: other) and `rest` the mapping of the
\* instance not called, when the call started.
NoCall == [name |-> "", key |-> "", delta |-> 0]
NoArgs ==
    [name |-> "", key |-> "", val |-> PyNone, time |-> 0, delta |-> 0,
     keys |-> <<>>, nows |-> <<>>, after |-> NoCall, self |-> 1,
     rest |-> ClientInit]
Outcome(r) == [kind |-> r.kind, v |-> r.v, m |-> r.m, exc |-> r.exc]

Mutators == {"set", "replace", "append", "prepend", "incr", "decr", "delete"}

\* The call `call`, ending as `r`, assigned self.dictionary[call.key].
Wrote(call, r) ==
    /\ r.kind = "return"
    /\ \/ call.name = "set"
       \/ call.name \in {"add", "replace", "append", "prepend"} /\ r.v = PyInt(1)
       \/ call.name \in {"incr", "decr"} /\ r.v # PyNone

\* The call `call` on the mapping `d`, ending as `r`, found the entry of
\* key `k` in the mapping and took it for expired.
FoundExpired(d, call, r, k) ==
    /\ k \in DOMAIN d
    /\ \/ call.name = "get" /\ call.key = k /\ r.v = PyNone
       \/ /\ call.name = "get_multi"
          /\ \E i \in 1..Len(call.keys) : call.keys[i] = k
          /\ k \notin DOMAIN r.m

\* What a session that tracks its reads remembers after the call.
Track(call, r) ==
    /\ seen' =
         IF ~caller.track THEN seen
         ELSE [k \in Keys |->
                  IF call.key = k /\ Wrote(call, r) THEN ""
                  ELSE IF FoundExpired(dictionary, call, r, k) THEN call.name
                  ELSE seen[k]]
    /\ stale' =
         IF ~caller.track THEN stale
         ELSE IF /\ call.name \in {"append", "prepend", "incr", "decr"}
                 /\ Wrote(call, r)
                 /\ call.key \in DOMAIN dictionary
                 /\ ~dictionary[call.key].exp.isNone
                 /\ dictionary[call.key].exp.t < Now(clock).t
         THEN stale \cup {call.key}
         ELSE IF call.name \in {"set", "add", "replace"} /\ Wrote(call, r)
         THEN stale \ {call.key}
         ELSE stale

\* The call `call` ends as `r`.
Record(call, r) ==
    /\ op' = [call EXCEPT !.after = [name |-> op.name, key |-> op.key,
                                     delta |-> op.delta],
                          !.rest = other]
    /\ ret' = Outcome(r)
    /\ pre' = dictionary
    /\ dictionary' = r.d
    /\ UNCHANGED other
    /\ Track(call, r)
    /\ pinned' =
         IF call.name = "set" /\ call.time = 0
         THEN [pinned EXCEPT ![call.key] = call.val]
         ELSE IF call.name \in Mutators
         THEN [pinned EXCEPT ![call.key] = PyNone]
         ELSE pinned

\* A call of a caller that follows no script.
Finish(call, r) == Record(call, r) /\ UNCHANGED caller

Start(keys, times, track) ==
    /\ caller = [keys |-> keys, times |-> times, script |-> 0, track |-> track]
    /\ dictionary = ClientInit
    /\ other = ClientInit
    /\ clock = StartClock
    /\ op = NoArgs
    /\ ret = Outcome(Return(ClientInit, PyNone))
    /\ pre = ClientInit
    /\ pinned = [k \in Keys |-> PyNone]
    /\ seen = [k \in Keys |-> ""]
    /\ stale = {}

Session(keys, times) == Start(keys, times, FALSE)

\* A caller working on two keys.
Init == Session(Keys, Times)
\* A caller working on one key with times on both sides of ThirtyDays.
InitBorder == Session({"a"}, BorderTimes)

\* The caller has taken the result of its last call and is free to call.
Idle == op.name = ""

\* Values stay within the bounds of the model.
InBounds(d) ==
    \A k \in DOMAIN d :
        /\ d[k].val.tag = "int" => d[k].val.n \in (0 - MaxInt)..MaxInt
        /\ d[k].val.tag = "str" => Len(d[k].val.s) <= MaxLen

CallSet ==
    /\ Idle
    /\ \E key \in caller.keys, val \in SetVals, time \in caller.times :
        /\ Finish([NoArgs EXCEPT !.name = "set", !.key = key, !.val = val,
                                 !.time = time],
                  SetOp(dictionary, clock, key, val, time))
        /\ UNCHANGED clock

CallAdd ==
    /\ Idle
    /\ \E key \in caller.keys, val \in SetVals, time \in caller.times :
        /\ Finish([NoArgs EXCEPT !.name = "add", !.key = key, !.val = val,
                                 !.time = time],
                  AddOp(dictionary, clock, key, val, time))
        /\ UNCHANGED clock

CallReplace ==
    /\ Idle
    /\ \E key \in caller.keys, val \in SetVals, time \in caller.times :
        /\ Finish([NoArgs EXCEPT !.name = "replace", !.key = key, !.val = val,
                                 !.time = time],
                  ReplaceOp(dictionary, clock, key, val, time))
        /\ UNCHANGED clock

CallGet ==
    /\ Idle
    /\ \E key \in caller.keys :
        /\ Finish([NoArgs EXCEPT !.name = "get", !.key = key],
                  GetOp(dictionary, clock, key))
        /\ UNCHANGED clock

\* The clock may advance while get_multi walks its keys: keys[i] is reached
\* at nows[i], the first key at the time of the call.
CallGetMulti ==
    /\ Idle
    /\ \E keys \in KeyLists(caller.keys) :
        \E nows \in [1..Len(keys) -> clock..(StartClock + MaxTicks)] :
            /\ nows[1] = clock
            /\ \A i \in 1..(Len(keys) - 1) : nows[i] <= nows[i + 1]
            /\ Finish([NoArgs EXCEPT !.name = "get_multi", !.keys = keys,
                                     !.nows = nows],
                      GetMultiOp(dictionary, nows, keys))
            /\ clock' = nows[Len(keys)]

CallDelete ==
    /\ Idle
    /\ \E key \in caller.keys, time \in DeleteTimes :
        /\ Finish([NoArgs EXCEPT !.name = "delete", !.key = key, !.time = time],
                  DeleteOp(dictionary, clock, key, time))
        /\ UNCHANGED clock

CallIncr ==
    /\ Idle
    /\ \E key \in caller.keys, delta \in Deltas :
        /\ InBounds(IncrOp(dictionary, key, delta).d)
        /\ Finish([NoArgs EXCEPT !.name = "incr", !.key = key, !.delta = delta],
                  IncrOp(dictionary, key, delta))
        /\ UNCHANGED clock

\* decr may also follow an incr at once, before the caller does anything
\* else: the pair is then looked at as a whole.
CallDecr ==
    /\ Idle \/ (op.name = "incr" /\ op.self = 1)
    /\ \E key \in caller.keys, delta \in Deltas :
        /\ InBounds(DecrOp(dictionary, key, delta).d)
        /\ Finish([NoArgs EXCEPT !.name = "decr", !.key = key, !.delta = delta],
                  DecrOp(dictionary, key, delta))
        /\ UNCHANGED clock

CallAppend ==
    /\ Idle
    /\ \E key \in caller.keys, val \in ConcatVals :
        /\ InBounds(AppendOp(dictionary, key, val).d)
        /\ Finish([NoArgs EXCEPT !.name = "append", !.key = key,
                                 !.val = PyStr(val)],
                  AppendOp(dictionary, key, val))
        /\ UNCHANGED clock

CallPrepend ==
    /\ Idle
    /\ \E key \in caller.keys, val \in ConcatVals :
        /\ InBounds(PrependOp(dictionary, key, val).d)
        /\ Finish([NoArgs EXCEPT !.name = "prepend", !.key = key,
                                 !.val = PyStr(val)],
                  PrependOp(dictionary, key, val))
        /\ UNCHANGED clock

\* The method `call` names, run on the mapping `d`.
Apply(d, now, call) ==
    CASE call.name = "set" -> SetOp(d, now, call.key, call.val, call.time)
      [] call.name = "add" -> AddOp(d, now, call.key, call.val, call.time)
      [] call.name = "replace" ->
             ReplaceOp(d, now, call.key, call.val, call.time)
      [] call.name = "get" -> GetOp(d, now, call.key)
      [] call.name = "get_multi" -> GetMultiOp(d, call.nows, call.keys)
      [] call.name = "delete" -> DeleteOp(d, now, call.key, call.time)
      [] call.name = "incr" -> IncrOp(d, call.key, call.delta)
      [] call.name = "decr" -> DecrOp(d, call.key, call.delta)
      [] call.name = "append" -> AppendOp(d, call.key, call.val.s)
      [] call.name = "prepend" -> PrependOp(d, call.key, call.val.s)

\* The calls of the module's doctest on key "a", in order.
DocGet == [NoArgs EXCEPT !.name = "get", !.key = "a"]
DocWrite(name, q) ==
    [NoArgs EXCEPT !.name = name, !.key = "a", !.val = PyStr(q)]
DocCount(name, delta) ==
    [NoArgs EXCEPT !.name = name, !.key = "a", !.delta = delta]
DocScript ==
    << DocGet, DocGet,
       DocWrite("set", <<"1", "2", "3", "4">>), DocGet,
       DocWrite("add", <<"1", "1", "1", "1">>), DocGet,
       DocWrite("replace", <<"2", "2", "2", "2">>), DocGet,
       DocWrite("append", <<"3">>), DocGet,
       DocWrite("prepend", <<"1">>), DocGet,
       DocCount("incr", 1), DocGet,
       DocCount("incr", 10), DocGet,
       DocCount("decr", 1), DocGet,
       DocCount("decr", 5), DocGet >>

\* The caller makes the next call of the doctest.
DocCall ==
    /\ Idle
    /\ caller.script < Len(DocScript)
    /\ Record(DocScript[caller.script + 1],
              Apply(dictionary, clock, DocScript[caller.script + 1]))
    /\ caller' = [caller EXCEPT !.script = @ + 1]
    /\ UNCHANGED clock

\* The calls a caller may make with its keys and times.
Calls(keys, times) ==
    UNION {
        {[NoArgs EXCEPT !.name = name, !.key = key, !.val = val, !.time = time] :
            name \in {"set", "add", "replace"}, val \in SetVals, time \in times}
        \cup {[NoArgs EXCEPT !.name = "get", !.key = key]}
        \cup {[NoArgs EXCEPT !.name = "delete", !.key = key, !.time = time] :
                 time \in DeleteTimes}
        \cup {[NoArgs EXCEPT !.name = name, !.key = key, !.delta = delta] :
                 name \in {"incr", "decr"}, delta \in Deltas}
        \cup {[NoArgs EXCEPT !.name = name, !.key = key, !.val = PyStr(val)] :
                 name \in {"append", "prepend"}, val \in ConcatVals}
        : key \in keys}

\* A call on the second Client instance.
CallOther ==
    /\ Idle
    /\ \E call \in Calls(caller.keys, caller.times) :
        LET r == Apply(other, clock, call)
        IN  /\ InBounds(r.d)
            /\ op' = [call EXCEPT !.self = 2, !.rest = dictionary]
            /\ ret' = Outcome(r)
            /\ pre' = other
            /\ other' = r.d
    /\ UNCHANGED <<caller, dictionary, clock, pinned, seen, stale>>

\* A second passes between two calls (time.sleep, or the caller's own work).
Tick ==
    /\ Idle
    /\ clock < StartClock + MaxTicks
    /\ clock' = clock + 1
    /\ UNCHANGED <<caller, dictionary, other, op, ret, pre, pinned, seen, stale>>

\* The caller takes the result of its last call and goes on.
TakeResult ==
    /\ ~Idle
    /\ op' = NoArgs
    /\ ret' = Outcome(Return(dictionary, PyNone))
    /\ pre' = dictionary
    /\ UNCHANGED <<caller, dictionary, other, clock, pinned, seen, stale>>

Next ==
    \/ CallSet
    \/ CallAdd
    \/ CallReplace
    \/ CallGet
    \/ CallGetMulti
    \/ CallDelete
    \/ CallIncr
    \/ CallDecr
    \/ CallAppend
    \/ CallPrepend
    \/ Tick
    \/ TakeResult

Spec == Init /\ [][Next]_vars
SpecBorder == InitBorder /\ [][Next]_vars

\* A caller that keeps track of what its reads found.
InitTrack == Start({"a"}, Times, TRUE)
SpecTrack == InitTrack /\ [][Next]_vars

\* Two Client instances in one process.
NextTwo ==
    \/ Next
    \/ CallOther

InitTwo == Session({"a"}, {0, 1})
SpecTwo == InitTwo /\ [][NextTwo]_vars

\* The doctest session: its calls in order, the clock moving in between.
NextDoc ==
    \/ DocCall
    \/ Tick
    \/ TakeResult

InitDoc == Session({"a"}, {0})
SpecDoc == InitDoc /\ [][NextDoc]_vars

\* ------------------------------------------------------------- properties

Returned(v) == [kind |-> "return", v |-> v, m |-> EmptyMap, exc |-> ""]
\* The entry of key `k` in `d` is logically expired at Unix time `c`.
Expired(d, k, c) == ~d[k].exp.isNone /\ d[k].exp.t < c + UtcOffset

\* C1: delete(k, 0) on a key present in the mapping removes it and returns
\* 1; on an absent key it returns 0 and leaves the mapping unchanged.
C1_DeleteNow ==
    op.name = "delete" /\ op.time = 0 =>
        IF op.key \in DOMAIN pre
        THEN ret = Returned(PyInt(1)) /\ dictionary = Del(pre, op.key)
        ELSE ret = Returned(PyInt(0)) /\ dictionary = pre

\* C2: get, delete, incr, decr, append, prepend and replace on an absent key
\* return 0 or None and never raise.
C2_MissIsSentinel ==
    /\ op.name \in {"get", "delete", "incr", "decr", "append", "prepend",
                    "replace"}
    /\ op.key \notin DOMAIN pre
    => ret \in {Returned(PyInt(0)), Returned(PyNone)}

\* C3: once set(k, v, 0) has been called, every get(k) returns v, at any
\* later clock value and whatever was done to other keys, until another
\* set/replace/append/prepend/incr/decr/delete call on k.
C3_RoundTrip ==
    op.name = "get" /\ pinned[op.key] # PyNone =>
        ret = Returned(pinned[op.key])

C3_Witness ==
    /\ op.name = "get"
    /\ pinned[op.key] # PyNone
    /\ ret = Returned(pinned[op.key])
    /\ clock = StartClock + MaxTicks
    /\ \E k \in DOMAIN dictionary \ {op.key} : dictionary[k].val.tag = "int"

\* C4: add on a key in the mapping, expired or not, returns 0 and leaves
\* the mapping unchanged; on a key not in the mapping it returns 1 and
\* writes what set would write.
C4_AddKeepsPresent ==
    op.name = "add" =>
        IF op.key \in DOMAIN pre
        THEN ret = Returned(PyInt(0)) /\ dictionary = pre
        ELSE /\ ret = Returned(PyInt(1))
             /\ dictionary = SetOp(pre, clock, op.key, op.val, op.time).d

C4_Witness ==
    /\ op.name = "add"
    /\ op.key \in DOMAIN pre
    /\ Expired(pre, op.key, clock)
    /\ ret = Returned(PyInt(0))
    /\ dictionary = pre

\* C5: replace on a key absent from the mapping returns 0 and leaves the
\* mapping unchanged; on a key in the mapping, expired or not, it returns 1
\* and the mapping becomes what set would make it.
C5_ReplaceNeedsPresent ==
    op.name = "replace" =>
        IF op.key \notin DOMAIN pre
        THEN ret = Returned(PyInt(0)) /\ dictionary = pre
        ELSE /\ ret = Returned(PyInt(1))
             /\ dictionary = SetOp(pre, clock, op.key, op.val, op.time).d

C5_Witness ==
    /\ op.name = "replace"
    /\ op.key \notin DOMAIN pre
    /\ pre # ClientInit
    /\ ret = Returned(PyInt(0))
    /\ dictionary = pre

\* C6: set(k, v, t) returns 1 and stores, whatever entry k had, the
\* expiration None when t = 0, now + t when 0 < t < 2592000, and the
\* datetime of the Unix time t when t >= 2592000.
C6_SetExpiration ==
    op.name = "set" =>
        /\ ret = Returned(PyInt(1))
        /\ op.key \in DOMAIN dictionary
        /\ dictionary[op.key].val = op.val
        /\ op.time = 0 => dictionary[op.key].exp = NoExp
        /\ 0 < op.time /\ op.time < 2592000 =>
               dictionary[op.key].exp = DateTime(clock + UtcOffset + op.time)
        /\ op.time >= 2592000 =>
               dictionary[op.key].exp = DateTime(op.time + UtcOffset)

C6_Witness ==
    /\ op.name = "set"
    /\ op.time = 2592000
    /\ clock > StartClock
    /\ op.key \in DOMAIN pre
    /\ pre[op.key].exp = DateTime(clock + UtcOffset + 2591999)
    /\ dictionary[op.key].exp = DateTime(2592000 + UtcOffset)

\* C7: get on an entry whose expiration is not None and strictly earlier
\* than now returns None and removes the key; on an entry whose expiration
\* is None, now or later it returns the value and leaves the mapping as it is.
C7_GetEvictsPast ==
    op.name = "get" /\ op.key \in DOMAIN pre =>
        IF ~pre[op.key].exp.isNone /\ pre[op.key].exp.t < clock + UtcOffset
        THEN ret = Returned(PyNone) /\ dictionary = Del(pre, op.key)
        ELSE ret = Returned(pre[op.key].val) /\ dictionary = pre

C7_Witness ==
    /\ op.name = "get"
    /\ op.key \in DOMAIN pre
    /\ op.key \notin DOMAIN dictionary
    /\ ret = Returned(PyNone)

\* C8: get_multi leaves the mapping unchanged; an expired key it leaves out
\* of its result is still in the mapping afterwards.
C8_GetMultiKeeps == op.name = "get_multi" => dictionary = pre

C8_Witness ==
    /\ op.name = "get_multi"
    /\ \E i \in 1..Len(op.keys) :
           /\ op.keys[i] \in DOMAIN pre
           /\ Expired(pre, op.keys[i], op.nows[i])
           /\ op.keys[i] \notin DOMAIN ret.m
           /\ op.keys[i] \in DOMAIN dictionary

\* C9: get_multi([k]) holds k with value v exactly when get(k), called at
\* the same clock value, returns v.
C9_GetMultiAsGet ==
    op.name = "get_multi" /\ Len(op.keys) = 1 =>
        LET k == op.keys[1]
            g == GetOp(pre, op.nows[1], k)
        IN  IF g.kind = "return" /\ g.v # PyNone
            THEN DOMAIN ret.m = {k} /\ ret.m[k] = g.v
            ELSE ret.m = EmptyMap

\* C10: for a key holding an int-coercible value, decr(k, d) right after
\* incr(k, d) leaves k with the original integer and the original
\* expiration, and returns what incr(k, -d) returns.
C10_IncrDecrInverse ==
    [][(/\ op.name = "incr"
        /\ ret.kind = "return"
        /\ ret.v # PyNone
        /\ op'.name = "decr"
        /\ op'.key = op.key
        /\ op'.delta = op.delta)
       => /\ op.key \in DOMAIN dictionary'
          /\ dictionary'[op.key] =
                 Entry(PyInt(IntOf(pre[op.key].val)), pre[op.key].exp)
          /\ ret' = Outcome(IncrOp(dictionary, op.key, 0 - op.delta))]_vars

C10_Witness ==
    /\ op.name = "decr"
    /\ op.after = [name |-> "incr", key |-> op.key, delta |-> op.delta]
    /\ op.delta = -1
    /\ ret = Returned(PyInt(1))
    /\ ~dictionary[op.key].exp.isNone

\* C11: incr and decr on an absent key return None, append and prepend on
\* an absent key return 0, and the mapping is left as it was: the key is
\* not created and no other entry changes.
C11_MissChangesNothing ==
    op.name \in {"incr", "decr", "append", "prepend"}
    /\ op.key \notin DOMAIN pre
    => /\ dictionary = pre
       /\ op.name \in {"incr", "decr"} => ret = Returned(PyNone)
       /\ op.name \in {"append", "prepend"} => ret = Returned(PyInt(0))

C11_Witness ==
    /\ op.name = "incr"
    /\ op.key \notin DOMAIN pre
    /\ pre # ClientInit
    /\ ret = Returned(PyNone)
    /\ dictionary = pre

\* C12: on a present key holding `old`, append(k, x) returns 1 and stores
\* str(old) followed by x, prepend(k, x) returns 1 and stores x followed by
\* str(old); so for the int 1 and x = "0" they store "10" and "01".
C12_ConcatOrder ==
    op.name \in {"append", "prepend"} /\ op.key \in DOMAIN pre =>
        LET old == Str(pre[op.key].val)
            new == dictionary[op.key].val
        IN  /\ ret = Returned(PyInt(1))
            /\ op.name = "append" => new = PyStr(old \o op.val.s)
            /\ op.name = "prepend" => new = PyStr(op.val.s \o old)
            /\ pre[op.key].val = PyInt(1) /\ op.val.s = <<"0">> =>
                   new = IF op.name = "append" THEN PyStr(<<"1", "0">>)
                         ELSE PyStr(<<"0", "1">>)

C12_Witness ==
    /\ op.name = "prepend"
    /\ op.key \in DOMAIN pre
    /\ pre[op.key].val = PyInt(1)
    /\ ret = Returned(PyInt(1))
    /\ dictionary[op.key].val = PyStr(<<"0", "1">>)

\* C13: delete(k, t) with t >= 1 on a present key returns 0, keeps the key
\* and writes what set(k, current value, t) writes: the same value with the
\* expiration of t.
C13_DeleteHold ==
    op.name = "delete" /\ op.time >= 1 /\ op.key \in DOMAIN pre =>
        /\ ret = Returned(PyInt(0))
        /\ dictionary =
               SetOp(pre, clock, op.key, pre[op.key].val, op.time).d

\* C16: get_multi judges every key against the clock read when the call
\* starts, however the clock moves during the call, and its result is the
\* same when the keys are passed in the opposite order.
Reverse(q) == [i \in 1..Len(q) |-> q[Len(q) + 1 - i]]
C16_GetMultiOneClock ==
    op.name = "get_multi" =>
        /\ ret.m = GetMultiOp(pre, [i \in 1..Len(op.keys) |-> op.nows[1]],
                              op.keys).m
        /\ ret.m = GetMultiOp(pre, op.nows, Reverse(op.keys)).m

\* C17: incr, decr, append and prepend on a present key leave the entry's
\* expiration as it was, be it None, to come or past; nothing but the value
\* of that entry changes.
C17_ExpirationKept ==
    op.name \in {"incr", "decr", "append", "prepend"}
    /\ op.key \in DOMAIN pre
    => /\ DOMAIN dictionary = DOMAIN pre
       /\ dictionary[op.key].exp = pre[op.key].exp
       /\ \A k \in DOMAIN pre \ {op.key} : dictionary[k] = pre[k]

C17_Witness ==
    /\ op.name = "incr"
    /\ op.key \in DOMAIN pre
    /\ Expired(pre, op.key, clock)
    /\ ret.kind = "return"
    /\ dictionary[op.key].val # pre[op.key].val
    /\ dictionary[op.key].exp = pre[op.key].exp

\* C14: the documented session on key "a", from an empty store: set
\* "1234", add "1111", replace "2222", append "3", prepend "1", incr, incr
\* 10, decr, decr 5, with a get after each, returns 1, "1234", 0, "1234", 1,
\* 1, 1, 122224, 122234, 122233, 122228 (each get returning the stored
\* value) and stores "1234", "1234", "2222", "22223", "122223", 122224,
\* 122234, 122233, 122228, always with expiration None.
DocStored ==
    << PyNone, PyNone,
       PyStr(<<"1", "2", "3", "4">>), PyStr(<<"1", "2", "3", "4">>),
       PyStr(<<"1", "2", "3", "4">>), PyStr(<<"1", "2", "3", "4">>),
       PyStr(<<"2", "2", "2", "2">>), PyStr(<<"2", "2", "2", "2">>),
       PyStr(<<"2", "2", "2", "2", "3">>), PyStr(<<"2", "2", "2", "2", "3">>),
       PyStr(<<"1", "2", "2", "2", "2", "3">>),
       PyStr(<<"1", "2", "2", "2", "2", "3">>),
       PyInt(122224), PyInt(122224), PyInt(122234), PyInt(122234),
       PyInt(122233), PyInt(122233), PyInt(122228), PyInt(122228) >>
DocReturns ==
    << PyNone, PyNone,
       PyInt(1), PyStr(<<"1", "2", "3", "4">>),
       PyInt(0), PyStr(<<"1", "2", "3", "4">>),
       PyInt(1), PyStr(<<"2", "2", "2", "2">>),
       PyInt(1), PyStr(<<"2", "2", "2", "2", "3">>),
       PyInt(1), PyStr(<<"1", "2", "2", "2", "2", "3">>),
       PyInt(122224), PyInt(122224), PyInt(122234), PyInt(122234),
       PyInt(122233), PyInt(122233), PyInt(122228), PyInt(122228) >>
C14_DocScenario ==
    caller.script > 0 =>
        /\ ~Idle => ret = Returned(DocReturns[caller.script])
        /\ dictionary =
               IF DocStored[caller.script] = PyNone THEN ClientInit
               ELSE [k \in {"a"} |-> Entry(DocStored[caller.script], NoExp)]

C14_Witness ==
    /\ caller.script = Len(DocScript)
    /\ op.name = "get"
    /\ ret = Returned(PyInt(122228))
    /\ dictionary = [k \in {"a"} |-> Entry(PyInt(122228), NoExp)]
    /\ clock = StartClock + MaxTicks

\* C15: with two Client instances, every call, delete included, reads and
\* writes the mapping of the instance it is made on and nothing else: the
\* mapping of the other instance is left as it was, and delete is decided
\* by the presence of the key in the instance's own mapping, not by a name
\* looked up at module level.
C15_OwnMappingOnly ==
    ~Idle =>
        LET mine == IF op.self = 1 THEN dictionary ELSE other
            theirs == IF op.self = 1 THEN other ELSE dictionary
        IN  /\ theirs = op.rest
            /\ op.name # "delete" => mine = Apply(pre, clock, op).d
            /\ op.name = "delete" =>
                   /\ ret.kind = "return"
                   /\ ret.v = PyInt(1) <=> op.key \in DOMAIN pre /\ op.time < 1
                   /\ op.key \in DOMAIN mine <=>
                          op.key \in DOMAIN pre /\ op.time >= 1

\* C18, as claimed: a key is in the mapping only if neither get nor
\* get_multi has found it expired since it was last written.
C18_NoReadSawExpired == \A k \in DOMAIN dictionary : seen[k] = ""

\* C18, amended: a key is in the mapping only if no get has found it
\* expired since it was last written; get_multi may find it expired and
\* leave it in the mapping.
C18_NoGetSawExpired == \A k \in DOMAIN dictionary : seen[k] # "get"

C18_Witness ==
    /\ op.name = "get"
    /\ op.key \in DOMAIN pre
    /\ op.after.name = ""
    /\ seen[op.key] = "get"
    /\ op.key \notin DOMAIN dictionary
    /\ ret = Returned(PyNone)

\* C19: append, prepend, incr and decr do not look at the expiration: on an
\* expired entry still in the mapping they return 1, or the new integer,
\* and change the stored value; the key stays expired, so every later
\* get(k), at the same clock value or a later one, returns None and leaves
\* the key out of the mapping.
C19_ExpiredStaysExpired ==
    /\ /\ op.name \in {"append", "prepend", "incr", "decr"}
       /\ op.key \in DOMAIN pre
       /\ Expired(pre, op.key, clock)
       /\ op.name \in {"incr", "decr"} => IntCoercible(pre[op.key].val)
       => /\ op.name \in {"append", "prepend"} => ret = Returned(PyInt(1))
          /\ op.name = "incr" =>
                 ret = Returned(PyInt(IntOf(pre[op.key].val) + op.delta))
          /\ op.name = "decr" =>
                 ret = Returned(PyInt(IntOf(pre[op.key].val) - op.delta))
          /\ dictionary[op.key].val # pre[op.key].val
          /\ op.key \in stale
    /\ op.name = "get" /\ op.key \in stale =>
           ret = Returned(PyNone) /\ op.key \notin DOMAIN dictionary

C19_Witness ==
    /\ op.name = "get"
    /\ op.key \in stale
    /\ op.key \in DOMAIN pre
    /\ pre[op.key].val.tag = "int"
    /\ ret = Returned(PyNone)
    /\ op.key \notin DOMAIN dictionary

\* C20: a key comes into the mapping only through set, or through an add
\* that returns 1; so once a get has evicted a key, every get of it returns
\* None until a set or an add of that key.
C20_OnlySetAndAddCreate ==
    /\ \A k \in DOMAIN dictionary \ DOMAIN pre :
           op.name \in {"set", "add"} /\ op.key = k /\ ret = Returned(PyInt(1))
    /\ op.name = "get" /\ seen[op.key] = "get" => ret = Returned(PyNone)

C20_Witness ==
    /\ op.name = "get"
    /\ seen[op.key] = "get"
    /\ op.key \notin DOMAIN pre
    /\ ret = Returned(PyNone)
    /\ clock = StartClock + MaxTicks
====
